---- MODULE Spec2Model ----
(***************************************************************************)
(* Dynon D120/D180 EMS serial input (lib/inputs/serial_d120.py).           *)
(*                                                                         *)
(* Bytes and characters are their integer codes: a bytes object is a      *)
(* sequence over 0..255, a str a sequence of code points.  Python's 0-based *)
(* slice s[i:i+n] is the 1-based SubSeq(s, i+1, i+n), clipped at the end.   *)
(*                                                                         *)
(* Three specifications:                                                   *)
(*   SpecChecksum  _ems_checksum_ok applied to bounded byte strings        *)
(*   SpecParse     _parse_ems_line applied to variants of EMS frames       *)
(*   Spec          readMessage called repeatedly on a line source          *)
(***************************************************************************)
EXTENDS Integers, Sequences, FiniteSets, TLC

VARIABLES
    in_raw,      \* SpecChecksum: the bytes handed to _ems_checksum_ok
    out_ok,      \* SpecChecksum: outcome of _ems_checksum_ok(in_raw)
    out_sealed,  \* SpecChecksum: outcome of _ems_checksum_ok(in_raw + hex(c))
    in_s,        \* SpecParse: the str handed to _parse_ems_line
    out_parsed,  \* SpecParse: outcome of _parse_ems_line(in_s)
    isPlaybackMode,        \* self.isPlaybackMode
    skipReadInput,         \* self.skipReadInput
    errorFoundNeedToExit,  \* dataship.errorFoundNeedToExit
    msg_bad,               \* self.msg_bad
    engineData,            \* self.engineData
    fuelData,              \* self.fuelData
    output_log,            \* lines handed to Input.addToLog
    lines_read,            \* lines consumed from self.ser so far
    calls,                 \* readMessage calls so far
    last                   \* what the latest readMessage call read and did

chkVars   == <<in_raw, out_ok, out_sealed>>
parseVars == <<in_s, out_parsed>>
readVars  == <<isPlaybackMode, skipReadInput, errorFoundNeedToExit, msg_bad,
               engineData, fuelData, output_log, lines_read, calls, last>>
vars      == <<chkVars, parseVars, readVars>>

(***************************************************************************)
(* Python built-ins used by the source                                     *)
(***************************************************************************)

\* sum(payload): the sum of the byte values (summed by halves, which keeps
\* the evaluation shallow on a 120-byte line)
RECURSIVE SumRange(_, _, _)
SumRange(b, lo, hi) ==
    IF lo > hi THEN 0
    ELSE IF lo = hi THEN b[lo]
    ELSE LET mid == (lo + hi) \div 2
         IN  SumRange(b, lo, mid) + SumRange(b, mid + 1, hi)
sum(b) == SumRange(b, 1, Len(b))

\* bytes.rstrip(chars): drop trailing bytes that are in chars
RECURSIVE rstrip(_, _)
rstrip(b, chars) ==
    IF b # <<>> /\ b[Len(b)] \in chars THEN rstrip(SubSeq(b, 1, Len(b) - 1), chars)
    ELSE b

RECURSIVE lstrip(_, _)
lstrip(b, chars) ==
    IF b # <<>> /\ b[1] \in chars THEN lstrip(Tail(b), chars) ELSE b

\* Python slice b[i:i+n] for 0 <= i, 0 <= n (clipped at the end of b)
Slice(b, i, n) ==
    SubSeq(b, i + 1, IF i + n <= Len(b) THEN i + n ELSE Len(b))

\* b[-2:] and b[:-2]
LastTwo(b)    == IF Len(b) >= 2 THEN SubSeq(b, Len(b) - 1, Len(b)) ELSE b
AllButTwo(b)  == IF Len(b) >= 2 THEN SubSeq(b, 1, Len(b) - 2) ELSE <<>>

\* str.isspace() code points below 256: what str.strip() removes
StrSpace == {9, 10, 11, 12, 13, 28, 29, 30, 31, 32, 133, 160}
\* what int() skips around a literal: Py_ISSPACE, plus the non-ASCII spaces
\* that int(str) first rewrites to ' '
IntSpace == {9, 10, 11, 12, 13, 32, 133, 160}

\* str.strip()
strip(t) == rstrip(lstrip(t, StrSpace), StrSpace)

\* bytes.decode("ascii"): raises UnicodeDecodeError on a byte >= 128
AsciiOnly(b) == \A k \in 1..Len(b) : b[k] < 128

\* bytes.decode("ascii", errors="ignore") and str.encode("ascii",
\* errors="ignore"): bytes / code points >= 128 are dropped
IsAscii(ch) == ch < 128
ascii_ignore(b) == SelectSeq(b, IsAscii)

\* value of one character as a digit, or -1 (as in _PyLong_DigitValue)
DigitValue(ch) ==
    IF ch \in 48..57 THEN ch - 48
    ELSE IF ch \in 97..122 THEN ch - 97 + 10
    ELSE IF ch \in 65..90 THEN ch - 65 + 10
    ELSE -1

IsDigitIn(ch, base) == DigitValue(ch) >= 0 /\ DigitValue(ch) < base

\* the digits part of an int literal: digits of the base, single underscores
\* allowed between two digits only
DigitsOk(d, base) ==
    /\ d # <<>>
    /\ IsDigitIn(d[1], base)
    /\ IsDigitIn(d[Len(d)], base)
    /\ \A k \in 1..Len(d) : IsDigitIn(d[k], base) \/ d[k] = 95
    /\ \A k \in 1..(Len(d) - 1) : ~(d[k] = 95 /\ d[k + 1] = 95)

RECURSIVE DigitsValue(_, _, _)
DigitsValue(d, base, acc) ==
    IF d = <<>> THEN acc
    ELSE IF d[1] = 95 THEN DigitsValue(Tail(d), base, acc)
    ELSE DigitsValue(Tail(d), base, acc * base + DigitValue(d[1]))

\* a "0x" / "0X" prefix, which int(text, 16) accepts, followed by an
\* optional underscore
HexPrefixLen(u) ==
    IF Len(u) >= 2 /\ u[1] = 48 /\ u[2] \in {120, 88}
    THEN (IF Len(u) >= 3 /\ u[3] = 95 THEN 3 ELSE 2)
    ELSE 0

\* int(text) / int(text, 16): [ok |-> FALSE] is ValueError
int(text, base) ==
    LET t      == rstrip(lstrip(text, IntSpace), IntSpace)
        signed == t # <<>> /\ t[1] \in {43, 45}
        neg    == t # <<>> /\ t[1] = 45
        u      == IF signed THEN Tail(t) ELSE t
        p      == IF base = 16 THEN HexPrefixLen(u) ELSE 0
        d      == SubSeq(u, p + 1, Len(u))
    IN  IF DigitsOk(d, base)
        THEN [ok |-> TRUE,
              val |-> IF neg THEN 0 - DigitsValue(d, base, 0)
                      ELSE DigitsValue(d, base, 0)]
        ELSE [ok |-> FALSE, val |-> 0]

(***************************************************************************)
(* _ems_checksum_ok                                                        *)
(***************************************************************************)

\* body = raw.rstrip(b"\r\n")
Body(raw) == rstrip(raw, {13, 10})

\* if len(body) < 4: return False
TooShort_OffByOne(body) == Len(body) <= 4
TooShort_Never(body) == FALSE
TooShort(body) == Len(body) < 4

\* total = (sum(payload) + chk_val) & 0xFF
Total_NoChk(payload, chk_val) == sum(payload) % 256
Total_ChkOnly(payload, chk_val) == chk_val % 256
Total(payload, chk_val) == (sum(payload) + chk_val) % 256

\* the try block: what it returns, or the exception it raises
ems_checksum_try(raw) ==
    LET body    == Body(raw)
        chk_hex == LastTwo(body)
        chk_val == int(chk_hex, 16)
        payload == AllButTwo(body)
    IN  IF TooShort(body) THEN [exc |-> "none", ret |-> FALSE]
        ELSE IF ~AsciiOnly(chk_hex) THEN [exc |-> "UnicodeDecodeError", ret |-> FALSE]
        ELSE IF ~chk_val.ok THEN [exc |-> "ValueError", ret |-> FALSE]
        ELSE [exc |-> "none", ret |-> (Total(payload, chk_val.val) = 0)]

\* _ems_checksum_ok: `except Exception: return False` around the try block.
\* exc is the exception that escapes the function.
_ems_checksum_ok(raw) ==
    LET r == ems_checksum_try(raw)
    IN  IF r.exc = "none" THEN r ELSE [exc |-> "none", ret |-> FALSE]

(***************************************************************************)
(* _parse_ems_line                                                         *)
(***************************************************************************)

\* take(n): v = s[i:i+n]; i += n
take(s, i, n) == Slice(s, i, n)

\* the widths handed to take(), in call order: time 2+2+2+2, MAP 4, oil temp
\* 3, oil pressure 3, fuel pressure 3, volts 3, amps 3, RPM 3, fuel flow 3,
\* fuel remaining 4, tank 1 3, tank 2 3, GP 8+8+8, GP thermocouple 4,
\* EGT 6 x 4, CHT 6 x 3, contacts 1+1, product id 2
Widths_TankSplit ==
    <<2, 2, 2, 2, 4, 3, 3, 3, 3, 3, 3, 3, 4, 2, 4, 8, 8, 8, 4,
      4, 4, 4, 4, 4, 4, 3, 3, 3, 3, 3, 3, 1, 1, 2>>
Widths ==
    <<2, 2, 2, 2, 4, 3, 3, 3, 3, 3, 3, 3, 4, 3, 3, 8, 8, 8, 4,
      4, 4, 4, 4, 4, 4, 3, 3, 3, 3, 3, 3, 1, 1, 2>>

\* the takes that are opaque (never handed to int()): GP 1-3, GP
\* thermocouple, product id
OpaqueTakes == {16, 17, 18, 19, 34}

\* the values take() returns over the whole function, i starting at 0
RECURSIVE TakeAll(_, _, _)
TakeAll(s, i, widths) ==
    IF widths = <<>> THEN <<>>
    ELSE <<take(s, i, widths[1])>> \o TakeAll(s, i + widths[1], Tail(widths))

\* x / 100.0 and x / 10.0: the quotient, kept exact as numerator/denominator
TrueDiv(x, d) == [num |-> x, den |-> d]

\* rpm = rpm_div10 * 10
ToRpm(rpm_div10) == rpm_div10 * 10

None == [none |-> TRUE]

\* _parse_ems_line(s): the dict, or None when some int() raised ValueError
\* (`except Exception: return None`)
_parse_ems_line(s) ==
    LET f == TakeAll(s, 0, Widths)
        n == [k \in 1..Len(f) |-> int(f[k], 10)]
    IN  IF \E k \in (1..Len(f)) \ OpaqueTakes : ~n[k].ok THEN None
        ELSE [none          |-> FALSE,
              map_inhg      |-> TrueDiv(n[5].val, 100),
              oil_temp_f    |-> n[6].val,
              oil_psi       |-> n[7].val,
              fuel_psi      |-> TrueDiv(n[8].val, 10),
              volts_v       |-> TrueDiv(n[9].val, 10),
              amps_a        |-> n[10].val,
              rpm           |-> ToRpm(n[11].val),
              ff_gph        |-> TrueDiv(n[12].val, 10),
              fuel_remain_g |-> TrueDiv(n[13].val, 10),
              fuel_l1_g     |-> TrueDiv(n[14].val, 10),
              fuel_l2_g     |-> TrueDiv(n[15].val, 10),
              egt_f         |-> [j \in 1..6 |-> n[19 + j].val],
              cht_f         |-> [j \in 1..6 |-> n[25 + j].val],
              contact1      |-> n[32].val,
              contact2      |-> n[33].val]

(***************************************************************************)
(* SpecChecksum: _ems_checksum_ok on every byte string over ChkBytes of    *)
(* length at most MaxRaw                                                   *)
(***************************************************************************)

MaxRaw == 5

\* NUL, 0xF1, '0', 'f', '+', '-', ' ', CR, LF
ChkBytes == {0, 241, 48, 102, 43, 45, 32, 13, 10}

BoundedSeq(S, n) == UNION {[1..k -> S] : k \in 0..n}

NotCalled == [called |-> FALSE, exc |-> "none", ret |-> FALSE]
Called(r) == [called |-> TRUE, exc |-> r.exc, ret |-> r.ret]

\* the two-character hexadecimal rendering of a byte value, in either case
HexChar(v, upper) == IF v < 10 THEN 48 + v ELSE (IF upper THEN 55 ELSE 87) + v
Hex2(c, upper) == <<HexChar(c \div 16, upper), HexChar(c % 16, upper)>>

\* the checksum byte c in 0..255 with (sum(p) + c) mod 256 = 0
ChecksumByte(p) == (256 - (sum(p) % 256)) % 256

\* p followed by the rendering of its checksum byte
Sealed(p, upper) == p \o Hex2(ChecksumByte(p), upper)

\* values the read-loop variables keep while a pure function is exercised
NoEngine == [RPM |-> 0]
ReadIdle ==
    /\ isPlaybackMode = FALSE
    /\ skipReadInput = FALSE
    /\ errorFoundNeedToExit = FALSE
    /\ msg_bad = 0
    /\ engineData = NoEngine
    /\ fuelData = NoEngine
    /\ output_log = <<>>
    /\ lines_read = 0
    /\ calls = 0
    /\ last = NoEngine

ParseIdle == in_s = <<>> /\ out_parsed = NotCalled

InitChecksum ==
    /\ in_raw \in BoundedSeq(ChkBytes, MaxRaw)
    /\ out_ok = NotCalled
    /\ out_sealed = NotCalled
    /\ ParseIdle
    /\ ReadIdle

\* self._ems_checksum_ok(raw)
CallChecksum ==
    /\ ~out_ok.called
    /\ out_ok' = Called(_ems_checksum_ok(in_raw))
    /\ UNCHANGED <<in_raw, out_sealed, parseVars, readVars>>

\* self._ems_checksum_ok(p + hex(c)) for the checksum byte c of p
CallChecksumSealed ==
    /\ out_ok.called
    /\ ~out_sealed.called
    /\ \E upper \in BOOLEAN :
          out_sealed' = Called(_ems_checksum_ok(Sealed(in_raw, upper)))
    /\ UNCHANGED <<in_raw, out_ok, parseVars, readVars>>

NextChecksum == CallChecksum \/ CallChecksumSealed

SpecChecksum == InitChecksum /\ [][NextChecksum]_vars

(***************************************************************************)
(* Properties of _ems_checksum_ok                                          *)
(***************************************************************************)

\* the input with trailing CR/LF removed: the prefix up to the last byte
\* that is neither CR nor LF
TrimmedLen(raw) ==
    LET keep == {k \in 1..Len(raw) : raw[k] \notin {13, 10}}
    IN  IF keep = {} THEN 0 ELSE CHOOSE k \in keep : \A j \in keep : j <= k
Trimmed(raw) == SubSeq(raw, 1, TrimmedLen(raw))

IsHexDigit(ch) == ch \in (48..57) \cup (65..70) \cup (97..102)
HexDigitValue(ch) ==
    IF ch \in 48..57 THEN ch - 48 ELSE IF ch \in 65..70 THEN ch - 55 ELSE ch - 87

\* sum of the first n bytes
RECURSIVE SumFirst(_, _)
SumFirst(b, n) == IF n = 0 THEN 0 ELSE b[n] + SumFirst(b, n - 1)

EndsInHexPair(b) ==
    Len(b) >= 2 /\ IsHexDigit(b[Len(b) - 1]) /\ IsHexDigit(b[Len(b)])
HexPairValue(b) == 16 * HexDigitValue(b[Len(b) - 1]) + HexDigitValue(b[Len(b)])

\* C1: for an input whose body (trailing CR/LF removed) has at least 4 bytes
\* and ends in two hexadecimal digits, _ems_checksum_ok returns true if and
\* only if (sum of the bytes before the last two + the value of the last two
\* read as a hex pair) mod 256 = 0.
C1_ChecksumIff ==
    LET b == Trimmed(in_raw)
    IN  (out_ok.called /\ Len(b) >= 4 /\ EndsInHexPair(b))
        => (out_ok.ret <=> ((SumFirst(b, Len(b) - 2) + HexPairValue(b)) % 256 = 0))

\* an accepted frame whose CR was stripped and whose payload is not all zero
C1_Witness ==
    LET b == Trimmed(in_raw)
    IN  /\ out_ok.called /\ out_ok.ret
        /\ Len(b) >= 4 /\ EndsInHexPair(b)
        /\ Len(in_raw) > Len(b)
        /\ HexPairValue(b) # 0

\* C2 as stated: for every payload p, of any length, _ems_checksum_ok accepts
\* p followed by the two-character hex rendering of its checksum byte.
C2_SealedAccepted_AnyLength ==
    out_sealed.called => out_sealed.ret

\* C2 amended: for every payload p of at least 2 bytes, _ems_checksum_ok
\* accepts p followed by the two-character hex rendering of its checksum byte.
C2_SealedAccepted ==
    (out_sealed.called /\ Len(in_raw) >= 2) => out_sealed.ret

\* a payload with a byte above 127 and a checksum byte that is not 0
C2_Witness ==
    /\ out_sealed.called /\ out_sealed.ret
    /\ Len(in_raw) >= 2
    /\ \E k \in 1..Len(in_raw) : in_raw[k] >= 128
    /\ ChecksumByte(in_raw) # 0

\* C3: an input whose last two characters (after trailing CR/LF is removed)
\* are not both hexadecimal digits is rejected, whatever the payload is.
C3_NonHexRejected ==
    LET b == Trimmed(in_raw)
    IN  (out_ok.called /\ Len(b) >= 2 /\ ~EndsInHexPair(b)) => ~out_ok.ret

\* C4: an input whose body is shorter than 4 bytes is rejected with the
\* boolean false, and no exception escapes.
C4_ShortRejected ==
    (out_ok.called /\ Len(Trimmed(in_raw)) < 4)
        => (out_ok.ret = FALSE /\ out_ok.exc = "none")

\* a short body that is a well-formed checksum of the empty payload, and one
\* whose checksum field is not ASCII
C4_Witness ==
    /\ out_ok.called /\ ~out_ok.ret
    /\ \/ Trimmed(in_raw) = <<48, 48>> /\ Len(in_raw) > 2
       \/ Trimmed(in_raw) = <<0, 241, 241>>

ReplaceAt(b, i, v) == [b EXCEPT ![i] = v]

\* C5: replacing any single payload byte of an accepted frame by a different
\* byte value, the checksum characters unchanged, makes the frame rejected.
C5_PayloadFlipRejected ==
    (out_ok.called /\ out_ok.ret)
        => \A i \in 1..(TrimmedLen(in_raw) - 2) :
              \A v \in (0..255) \ {in_raw[i]} :
                 ~_ems_checksum_ok(ReplaceAt(in_raw, i, v)).ret

\* an accepted frame with a two-hex-digit checksum whose first payload byte
\* is 0xF1: with that byte changed to 0xF0 the frame is rejected
C5_Witness ==
    /\ out_ok.called /\ out_ok.ret
    /\ TrimmedLen(in_raw) >= 4
    /\ EndsInHexPair(Trimmed(in_raw))
    /\ in_raw[1] = 241
    /\ ~_ems_checksum_ok(ReplaceAt(in_raw, 1, 240)).ret

(***************************************************************************)
(* SpecParse: _parse_ems_line on an EMS frame with one field replaced by   *)
(* any string over FieldChars, and on every prefix of the frame            *)
(***************************************************************************)

ord == ("0" :> 48) @@ ("1" :> 49) @@ ("2" :> 50) @@ ("3" :> 51) @@ ("4" :> 52)
       @@ ("5" :> 53) @@ ("6" :> 54) @@ ("7" :> 55) @@ ("8" :> 56) @@ ("9" :> 57)
       @@ ("-" :> 45) @@ ("+" :> 43) @@ (" " :> 32) @@ ("_" :> 95) @@ ("x" :> 120)
       @@ ("G" :> 71) @@ ("P" :> 80)

Str(chars) == [k \in 1..Len(chars) |-> ord[chars[k]]]

RECURSIVE Concat(_)
Concat(parts) == IF parts = <<>> THEN <<>> ELSE parts[1] \o Concat(Tail(parts))

\* one EMS line, field by field: 12:34:56 + 7/64 s, MAP 29.50, oil -5 F /
\* 45 PSI, fuel 12.3 PSI, 13.8 V, -12 A, 2500 RPM, 8.7 GPH, 42.1 gal left,
\* tanks 15.3 / 26.8 gal, EGT 1301..1356, CHT 351..406, contacts 1 / 0
BaseFields ==
    << Str(<<"1","2">>), Str(<<"3","4">>), Str(<<"5","6">>), Str(<<"0","7">>),
       Str(<<"2","9","5","0">>),
       Str(<<"-","0","5">>), Str(<<"0","4","5">>),
       Str(<<"1","2","3">>), Str(<<"1","3","8">>), Str(<<"-","1","2">>),
       Str(<<"2","5","0">>), Str(<<"0","8","7">>),
       Str(<<"0","4","2","1">>), Str(<<"1","5","3">>), Str(<<"2","6","8">>),
       Str(<<"G","P","1","x","x","x","x","x">>),
       Str(<<"G","P","2","x","x","x","x","x">>),
       Str(<<"G","P","3","x","x","x","x","x">>),
       Str(<<"G","P","x","x">>),
       Str(<<"1","3","0","1">>), Str(<<"1","3","1","2">>), Str(<<"1","3","2","3">>),
       Str(<<"1","3","3","4">>), Str(<<"1","3","4","5">>), Str(<<"1","3","5","6">>),
       Str(<<"3","5","1">>), Str(<<"3","6","2">>), Str(<<"3","7","3">>),
       Str(<<"3","8","4">>), Str(<<"3","9","5">>), Str(<<"4","0","6">>),
       Str(<<"1">>), Str(<<"0">>),
       Str(<<"0","2">>) >>

\* the frame body: the fields followed by the two checksum characters
BasePayload == Concat(BaseFields)
BaseFrame == Sealed(BasePayload, TRUE)

\* '0', '7', '-', '+', ' ', '_', 'x'
FieldChars == {48, 55, 45, 43, 32, 95, 120}

\* fields with field k (its 0-based offset off, its width w) replaced by v
WithField(frame, off, w, v) ==
    SubSeq(frame, 1, off) \o v \o SubSeq(frame, off + w + 1, Len(frame))

RECURSIVE OffsetOf(_, _)
OffsetOf(widths, k) == IF k = 1 THEN 0 ELSE widths[k - 1] + OffsetOf(widths, k - 1)

\* the frame with one numeric field replaced by a string over FieldChars
IsFieldVariant(t) ==
    \E k \in (1..Len(Widths)) \ OpaqueTakes :
        \E v \in [1..Widths[k] -> FieldChars] :
            t = WithField(BaseFrame, OffsetOf(Widths, k), Widths[k], v)

\* a prefix of the frame (the frame itself included)
IsPrefix(t, frame) ==
    \E n \in 0..Len(frame) : t = SubSeq(frame, 1, n)

ChecksumIdle == in_raw = <<>> /\ out_ok = NotCalled /\ out_sealed = NotCalled

NotParsed == [called |-> FALSE, ret |-> None]

InitParse ==
    /\ IsFieldVariant(in_s) \/ IsPrefix(in_s, BaseFrame)
    /\ out_parsed = NotParsed
    /\ ChecksumIdle
    /\ ReadIdle

\* self._parse_ems_line(s)
CallParse ==
    /\ ~out_parsed.called
    /\ out_parsed' = [called |-> TRUE, ret |-> _parse_ems_line(in_s)]
    /\ UNCHANGED <<in_s, chkVars, readVars>>

NextParse == CallParse

SpecParse == InitParse /\ [][NextParse]_vars

(***************************************************************************)
(* Properties of _parse_ems_line                                           *)
(***************************************************************************)

\* the numeric fields of the frame by 0-based offset and width; the signed
\* ones are oil temperature, current, EGT and CHT
NumericFields ==
    { [off |-> 0, w |-> 2, signed |-> FALSE], [off |-> 2, w |-> 2, signed |-> FALSE],
      [off |-> 4, w |-> 2, signed |-> FALSE], [off |-> 6, w |-> 2, signed |-> FALSE],
      [off |-> 8, w |-> 4, signed |-> FALSE],
      [off |-> 12, w |-> 3, signed |-> TRUE], [off |-> 15, w |-> 3, signed |-> FALSE],
      [off |-> 18, w |-> 3, signed |-> FALSE], [off |-> 21, w |-> 3, signed |-> FALSE],
      [off |-> 24, w |-> 3, signed |-> TRUE],
      [off |-> 27, w |-> 3, signed |-> FALSE], [off |-> 30, w |-> 3, signed |-> FALSE],
      [off |-> 33, w |-> 4, signed |-> FALSE],
      [off |-> 37, w |-> 3, signed |-> FALSE], [off |-> 40, w |-> 3, signed |-> FALSE],
      [off |-> 113, w |-> 1, signed |-> FALSE], [off |-> 114, w |-> 1, signed |-> FALSE] }
    \cup { [off |-> 71 + 4 * j, w |-> 4, signed |-> TRUE] : j \in 0..5 }
    \cup { [off |-> 95 + 3 * j, w |-> 3, signed |-> TRUE] : j \in 0..5 }

IsDecimalDigit(ch) == ch \in 48..57

\* some character of field fld of t is not a decimal digit, other than a
\* leading '-' in a signed field
HasNonDigit(t, fld) ==
    \E k \in (fld.off + 1)..(fld.off + fld.w) :
        /\ k <= Len(t)
        /\ ~IsDecimalDigit(t[k])
        /\ ~(fld.signed /\ k = fld.off + 1 /\ t[k] = 45)

\* C6: a string with a non-digit character in a numeric field, other than a
\* leading '-' in a signed field, makes _parse_ems_line return None.
C6_NonDigitFails ==
    (out_parsed.called /\ \E fld \in NumericFields : HasNonDigit(in_s, fld))
        => out_parsed.ret.none

\* the decimal integer a slice denotes: its decimal digits read in order,
\* negated when the slice holds a '-'
RECURSIVE DigitsRead(_, _)
DigitsRead(t, n) ==
    IF n = 0 THEN 0
    ELSE IF IsDecimalDigit(t[n]) THEN 10 * DigitsRead(t, n - 1) + (t[n] - 48)
    ELSE DigitsRead(t, n - 1)
DecimalValue(t) ==
    IF \E k \in 1..Len(t) : t[k] = 45 THEN 0 - DigitsRead(t, Len(t))
    ELSE DigitsRead(t, Len(t))

\* the decimal value of the w characters of in_s from 0-based offset off
FieldAt(off, w) == DecimalValue(SubSeq(in_s, off + 1, off + w))

\* C7: when _parse_ems_line succeeds, every output field is the decimal
\* value of its own fixed slice (MAP 8-11, oil temp 12-14, oil pressure
\* 15-17, fuel pressure 18-20, volts 21-23, amps 24-26, RPM 27-29, fuel flow
\* 30-32, fuel remaining 33-36, tank 1 37-39, tank 2 40-42, EGT 6 x 4 from
\* 71, CHT 6 x 3 from 95, contacts at 113 and 114), MAP divided by 100, fuel
\* pressure, volts, fuel flow, fuel remaining and the tanks divided by 10,
\* RPM multiplied by 10 (a multiple of 10).
C7_FieldsFromSlices ==
    (out_parsed.called /\ ~out_parsed.ret.none) =>
        LET r == out_parsed.ret
        IN  /\ r.map_inhg = [num |-> FieldAt(8, 4), den |-> 100]
            /\ r.oil_temp_f = FieldAt(12, 3)
            /\ r.oil_psi = FieldAt(15, 3)
            /\ r.fuel_psi = [num |-> FieldAt(18, 3), den |-> 10]
            /\ r.volts_v = [num |-> FieldAt(21, 3), den |-> 10]
            /\ r.amps_a = FieldAt(24, 3)
            /\ r.rpm = 10 * FieldAt(27, 3)
            /\ r.rpm % 10 = 0
            /\ r.ff_gph = [num |-> FieldAt(30, 3), den |-> 10]
            /\ r.fuel_remain_g = [num |-> FieldAt(33, 4), den |-> 10]
            /\ r.fuel_l1_g = [num |-> FieldAt(37, 3), den |-> 10]
            /\ r.fuel_l2_g = [num |-> FieldAt(40, 3), den |-> 10]
            /\ \A j \in 1..6 : r.egt_f[j] = FieldAt(71 + 4 * (j - 1), 4)
            /\ \A j \in 1..6 : r.cht_f[j] = FieldAt(95 + 3 * (j - 1), 3)
            /\ r.contact1 = FieldAt(113, 1)
            /\ r.contact2 = FieldAt(114, 1)

\* the frame with RPM "250", oil temperature "-05" and MAP "2950"
C7_Witness ==
    /\ out_parsed.called /\ ~out_parsed.ret.none
    /\ in_s = BaseFrame
    /\ out_parsed.ret.rpm = 2500
    /\ out_parsed.ret.oil_temp_f = -5
    /\ out_parsed.ret.map_inhg = [num |-> 2950, den |-> 100]
    /\ out_parsed.ret.egt_f[6] = 1356
    /\ out_parsed.ret.cht_f[6] = 406

\* C8: every proper prefix of a well-formed frame body that is shorter than
\* the 117 characters of the field table makes _parse_ems_line return None.
C8_TruncatedFails ==
    (out_parsed.called /\ Len(in_s) < 117 /\ IsPrefix(in_s, BaseFrame))
        => out_parsed.ret.none

(***************************************************************************)
(* readMessage                                                             *)
(***************************************************************************)

MaxCalls == 3

CRLF == <<13, 10>>

\* the frame with every character that is not a digit replaced by '0'
DigitPayload ==
    [k \in 1..Len(BasePayload) |->
        IF BasePayload[k] \in 48..57 THEN BasePayload[k] ELSE 48]

\* lines the source can deliver
GoodLine         == BaseFrame \o CRLF
DigitLine        == Sealed(DigitPayload, FALSE) \o CRLF
BadChecksumLine  == ReplaceAt(GoodLine, 28, 57)
BadFieldLine     == Sealed(WithField(BasePayload, 27, 3, <<50, 120, 48>>), TRUE) \o CRLF
LeadingSpaceLine == Sealed(<<32>> \o DigitPayload, TRUE) \o CRLF
NonAsciiLine     == Sealed(ReplaceAt(DigitPayload, 1, 200), TRUE) \o CRLF
BlankLine        == CRLF
TruncatedLine    == SubSeq(BaseFrame, 1, 60) \o CRLF

SourceLines ==
    { GoodLine, DigitLine, BadChecksumLine, BadFieldLine, LeadingSpaceLine,
      NonAsciiLine, BlankLine, TruncatedLine }

RECURSIVE Pow10(_)
Pow10(n) == IF n = 0 THEN 1 ELSE 10 * Pow10(n - 1)

\* nearest integer to a / b (b > 0), ties to even
RoundHalfEven(a, b) ==
    LET q == a \div b
        r == a % b
    IN  IF 2 * r < b THEN q
        ELSE IF 2 * r > b THEN q + 1
        ELSE IF q % 2 = 0 THEN q ELSE q + 1

\* round(x, ndigits) of a quotient num/den
round(x, ndigits) ==
    IF Pow10(ndigits) % x.den = 0 THEN x
    ELSE [num |-> RoundHalfEven(x.num * Pow10(ndigits), x.den),
          den |-> Pow10(ndigits)]

Zeros(n) == [k \in 1..n |-> 0]

\* eng.EGT[i] = v for i, v in enumerate(values) if i < len(eng.EGT)
FillList(old, values) ==
    [k \in 1..Len(old) |-> IF k <= Len(values) THEN values[k] ELSE old[k]]

\* what a call that reads no line leaves in `last`
NoRead(path) ==
    [path |-> path, line |-> <<>>, raw |-> <<>>, body |-> <<>>, s |-> <<>>,
     chk_ok |-> FALSE, parsed_none |-> TRUE]

\* initInput: counters at 0, fresh EngineData / FuelData registered
Init ==
    /\ isPlaybackMode \in BOOLEAN
    /\ skipReadInput \in BOOLEAN
    /\ errorFoundNeedToExit = FALSE
    /\ msg_bad = 0
    /\ \E cyl \in {4, 8} :
          engineData =
            [RPM |-> 0, ManPress |-> TrueDiv(0, 1), OilTemp |-> 0, OilPress |-> 0,
             FuelPress |-> TrueDiv(0, 1), FuelFlow |-> TrueDiv(0, 1),
             Volts |-> TrueDiv(0, 1), Amps |-> 0,
             EGT |-> Zeros(cyl), CHT |-> Zeros(cyl), NumberOfCylinders |-> 0,
             msg_last |-> <<>>, msg_count |-> 0]
    /\ fuelData =
          [FuelLevels |-> <<>>, FuelTotal |-> TrueDiv(0, 1), msg_count |-> 0]
    /\ \E logging \in BOOLEAN : output_log = [enabled |-> logging, lines |-> 0]
    /\ lines_read = 0
    /\ calls = 0
    /\ last = NoRead("init")
    /\ ChecksumIdle
    /\ ParseIdle

\* readMessage returning at once: errorFoundNeedToExit or skipReadInput set
ReadMessage_Skip ==
    /\ calls < MaxCalls
    /\ errorFoundNeedToExit \/ skipReadInput
    /\ calls' = calls + 1
    /\ last' = NoRead("skip")
    /\ UNCHANGED <<isPlaybackMode, skipReadInput, errorFoundNeedToExit, msg_bad,
                   engineData, fuelData, output_log, lines_read, chkVars, parseVars>>

\* readline() returns nothing: end of the playback file (seek(0)), or the
\* serial timeout
ReadMessage_NoData ==
    /\ calls < MaxCalls
    /\ ~errorFoundNeedToExit /\ ~skipReadInput
    /\ calls' = calls + 1
    /\ lines_read' = IF isPlaybackMode THEN 0 ELSE lines_read
    /\ last' = NoRead("nodata")
    /\ UNCHANGED <<isPlaybackMode, skipReadInput, errorFoundNeedToExit, msg_bad,
                   engineData, fuelData, output_log, chkVars, parseVars>>

\* readline() raises: SerialException or any other Exception
ReadMessage_Raises ==
    /\ calls < MaxCalls
    /\ ~errorFoundNeedToExit /\ ~skipReadInput
    /\ calls' = calls + 1
    /\ errorFoundNeedToExit' = TRUE
    /\ last' = NoRead("raised")
    /\ UNCHANGED <<isPlaybackMode, skipReadInput, msg_bad, engineData, fuelData,
                   output_log, lines_read, chkVars, parseVars>>

\* self.msg_bad += 1; return dataship
Discard_Fatal ==
    /\ msg_bad' = msg_bad + 1
    /\ errorFoundNeedToExit' = TRUE
    /\ UNCHANGED <<engineData, fuelData, output_log>>
Discard ==
    /\ msg_bad' = msg_bad + 1
    /\ UNCHANGED <<errorFoundNeedToExit, engineData, fuelData, output_log>>

\* the mapping of a parsed dict onto engineData / fuelData, and the log
Apply(s, parsed) ==
    /\ engineData' =
          [engineData EXCEPT
             !.RPM = parsed.rpm,
             !.ManPress = round(parsed.map_inhg, 2),
             !.OilTemp = parsed.oil_temp_f,
             !.OilPress = parsed.oil_psi,
             !.FuelPress = round(parsed.fuel_psi, 1),
             !.FuelFlow = round(parsed.ff_gph, 2),
             !.Volts = round(parsed.volts_v, 1),
             !.Amps = parsed.amps_a,
             !.EGT = FillList(@, parsed.egt_f),
             !.CHT = FillList(@, parsed.cht_f),
             !.NumberOfCylinders =
                 IF Len(parsed.egt_f) >= Len(parsed.cht_f)
                 THEN Len(parsed.egt_f) ELSE Len(parsed.cht_f),
             !.msg_last = s,
             !.msg_count = @ + 1]
    /\ fuelData' =
          [fuelData EXCEPT
             !.FuelLevels =
                 LET padded == IF Len(@) < 2
                               THEN @ \o [k \in 1..(2 - Len(@)) |-> TrueDiv(0, 1)]
                               ELSE @
                 IN  [padded EXCEPT ![1] = round(parsed.fuel_l1_g, 1),
                                    ![2] = round(parsed.fuel_l2_g, 1)],
             !.FuelTotal = round(parsed.fuel_remain_g, 1),
             !.msg_count = @ + 1]
    /\ output_log' =
          IF output_log.enabled
          THEN [output_log EXCEPT !.lines = @ + 1]
          ELSE output_log
    /\ UNCHANGED <<msg_bad, errorFoundNeedToExit>>

\* readMessage reading the non-empty line `line` from self.ser
ReadMessage_Line(line) ==
    /\ calls < MaxCalls
    /\ ~errorFoundNeedToExit /\ ~skipReadInput
    /\ line # <<>>
    /\ calls' = calls + 1
    /\ lines_read' = lines_read + 1
    /\ LET raw    == IF isPlaybackMode THEN ascii_ignore(line) ELSE line
           chk    == _ems_checksum_ok(raw).ret
           s      == strip(ascii_ignore(raw))
           parsed == _parse_ems_line(s)
       IN  IF ~chk
           THEN /\ Discard
                /\ last' = [path |-> "bad_checksum", line |-> line, raw |-> raw,
                            body |-> Body(raw), s |-> <<>>, chk_ok |-> FALSE,
                            parsed_none |-> TRUE]
           ELSE IF parsed.none
           THEN /\ Discard
                /\ last' = [path |-> "bad_decode", line |-> line, raw |-> raw,
                            body |-> Body(raw), s |-> s, chk_ok |-> TRUE,
                            parsed_none |-> TRUE]
           ELSE /\ Apply(s, parsed)
                /\ last' = [path |-> "applied", line |-> line, raw |-> raw,
                            body |-> Body(raw), s |-> s, chk_ok |-> TRUE,
                            parsed_none |-> FALSE]
    /\ UNCHANGED <<isPlaybackMode, skipReadInput, chkVars, parseVars>>

ReadMessage_AnyLine == \E line \in SourceLines : ReadMessage_Line(line)

Next ==
    \/ ReadMessage_Skip
    \/ ReadMessage_NoData
    \/ ReadMessage_Raises
    \/ ReadMessage_AnyLine

Spec == Init /\ [][Next]_vars

(***************************************************************************)
(* Properties of readMessage                                               *)
(***************************************************************************)

\* the step is a readMessage call that read a non-empty line which fails the
\* checksum, or passes it and fails decoding
ReadsBadLine ==
    /\ calls' = calls + 1
    /\ last'.line # <<>>
    /\ \/ ~_ems_checksum_ok(last'.raw).ret
       \/ _parse_ems_line(last'.s).none

\* C9: a readMessage call that reads a non-empty line which fails the
\* checksum or fails decoding adds exactly 1 to msg_bad, leaves engineData
\* and fuelData as they were, does not set errorFoundNeedToExit, and has
\* consumed exactly that one line, so the next call reads the next line.
C9_BadFrameDiscarded ==
    [][ReadsBadLine =>
          /\ msg_bad' = msg_bad + 1
          /\ engineData' = engineData
          /\ fuelData' = fuelData
          /\ errorFoundNeedToExit' = FALSE
          /\ lines_read' = lines_read + 1]_vars

\* a frame was applied, then one line failed the checksum and one failed
\* decoding: both counted, the applied data still in place
C9_Witness ==
    /\ last.path = "bad_decode"
    /\ last.line = BadFieldLine
    /\ msg_bad = 2
    /\ engineData.msg_count = 1
    /\ engineData.RPM = 2500
    /\ lines_read = 3
    /\ ~errorFoundNeedToExit

\* C10: for every raw line readMessage accepts with _ems_checksum_ok, the
\* string it passes to _parse_ems_line is character for character the body
\* the checksum was computed over.
C10_ParsedIsValidatedBody ==
    last.chk_ok => last.s = last.body

====
